---------------------------- MODULE Spec2Model ----------------------------
(***************************************************************************)
(* A model of hakazmi/youtube-chatbot: the answer composer of              *)
(* rag_pipeline.py (reference tagging, used-reference reconciliation,      *)
(* citation assembly) and the ingestion pipeline of ingest.py behind the   *)
(* /index_videos endpoint of main.py, and the endpoints of main.py served  *)
(* by concurrent threads around the pipeline lock.                         *)
(*                                                                         *)
(* Text is modelled by what the code reads out of it:                      *)
(*   - a decimal number printed by an f-string is its sequence of digits,  *)
(*     so "#1" and "#01" differ and "V10" sorts before "V2";               *)
(*   - a formatted timestamp "M:SS" is <<digits of M, SS>>;                *)
(*   - a generated answer is a sequence of tokens, each one of the shapes  *)
(*     the two regular expressions of _build_used_order tell apart.        *)
(***************************************************************************)
EXTENDS Integers, Sequences, FiniteSets, TLC

VARIABLES
    \* ---- answer_question (rag_pipeline.py) ----
    qpc,             \* "idle" | "done": position of the answer_question call
    k,               \* the k argument: <<>> is None, <<n>> is n
    retrieval,       \* which retrieval call was made: "none" | "similarity_search" | "invoke"
    docs,            \* the retrieved documents, in retrieval order
    video_tags,      \* video_id -> digits of its tag number (tag "V<n>")
    ref_ids,         \* ref_ids[i]: digits of the reference id of docs[i] ("#<n>")
    llm_invoked,     \* whether stuff_chain.invoke was called
    final_answer,    \* the returned answer
    used_order,      \* the result of _build_used_order
    fallback_taken,  \* whether _build_used_order went past `if order: return order`
    citations,       \* meta["citations"]
    source_videos,   \* meta["source_videos"]
    raised,          \* whether answer_question raised
    \* ---- index_videos (ingest.py) and its endpoint (main.py) ----
    ipc,             \* position of the index_videos call
    urls,            \* the urls argument
    overwrite,       \* the overwrite argument
    batch_size,      \* the batch_size argument
    via_endpoint,    \* TRUE: called by index_videos_endpoint, FALSE: called directly
    resolved,        \* resolved[i]: how urls[i] was resolved (the loop is at Len(resolved) + 1)
    videos,          \* the videos collected from the urls
    fetched,         \* fetched[j]: what the fetch for videos[j] gave (the loop is at Len(fetched) + 1)
    seen_snippets,   \* the (video_id, start second) keys already taken
    snippet_docs,    \* the raw docs (`docs` of index_videos)
    chunks,          \* the chunks: <<chunked_texts[i], chunked_metadatas[i]>> zipped
    vector_store,    \* the in-memory store: <<>> is None, <<s>> holds the chunk sequence s
    batch_i,         \* start offset of the next batch
    disk,            \* the persisted index at persist_path: <<>> is absent, <<s>> holds s
    disk_mtime,      \* modification time of the persisted index files (0: none)
    disk0,           \* disk and disk_mtime when the call started (history variable)
    pipeline,        \* app.state.pipeline: <<>> is None, <<s>> is a pipeline over store s
    vs_mtime,        \* app.state.vs_mtime (0: None)
    pipeline0,       \* pipeline and vs_mtime when the call started (history variable)
    outcome,         \* "running" | "ok" | "error": how the call ended
    \* ---- the endpoints of main.py, served by concurrent threads ----
    lock,            \* app.state.pipeline_lock: the thread holding it, 0 when free
    clock,           \* the file system's time: the latest modification time given out
    tpc,             \* tpc[t]: position of thread t in its endpoint
    treq,            \* treq[t]: the endpoint thread t serves ("none" before it starts)
    tchunks,         \* tchunks[t]: the chunks of thread t's index_videos call
    tstore,          \* tstore[t]: the store thread t holds in memory (<<>> is None)
    tmtime           \* tmtime[t]: on_disk_mtime of thread t's _ensure_pipeline (0: None)

qvars == <<qpc, k, retrieval, docs, video_tags, ref_ids, llm_invoked, final_answer,
           used_order, fallback_taken, citations, source_videos, raised>>
ivars == <<ipc, urls, overwrite, batch_size, via_endpoint, resolved, videos,
           fetched, seen_snippets, snippet_docs, chunks, vector_store, batch_i,
           disk, disk_mtime, disk0, pipeline, vs_mtime, pipeline0, outcome>>
svars == <<lock, clock, tpc, treq, tchunks, tstore, tmtime>>
vars == <<qvars, ivars, svars>>

-----------------------------------------------------------------------------
(* Bounds of the model *)

\* the longest retrieved list whose documents are drawn freely
MaxDocs == 3
\* the longest generated answer, in tokens
MaxAnswerLen == 2

(* Program constants *)

\* build_rag_pipeline(vector_store, k: int = 10)
DefaultK == 10
\* ask_question: k = 8
EndpointK == 8

-----------------------------------------------------------------------------
(* Generic helpers *)

Range(s) == {s[i] : i \in 1..Len(s)}

Max(a, b) == IF a >= b THEN a ELSE b

Min(a, b) == IF a <= b THEN a ELSE b

RECURSIVE SeqsUpTo(_, _)
\* all sequences over S of length at most n
SeqsUpTo(S, n) ==
    IF n = 0 THEN {<<>>}
    ELSE LET shorter == SeqsUpTo(S, n - 1)
         IN  shorter \cup {Append(s, x) : s \in {t \in shorter : Len(t) = n - 1}, x \in S}

RECURSIVE Digits(_)
\* str(n) for n >= 0, as the sequence of its decimal digits
Digits(n) == IF n < 10 THEN <<n>> ELSE Append(Digits(n \div 10), n % 10)

RECURSIVE StrLess(_, _)
\* Python's < on two strings of digits: character by character, a proper prefix first
StrLess(a, b) ==
    IF b = <<>> THEN FALSE
    ELSE IF a = <<>> THEN TRUE
    ELSE IF Head(a) # Head(b) THEN Head(a) < Head(b)
    ELSE StrLess(Tail(a), Tail(b))

RECURSIVE NumberOf(_)
\* int(s) of a digit string
NumberOf(s) == IF s = <<>> THEN 0 ELSE 10 * NumberOf(SubSeq(s, 1, Len(s) - 1)) + s[Len(s)]

-----------------------------------------------------------------------------
(* rag_pipeline.py: helpers *)

\* _ts: f"{sec // 60}:{sec % 60:02d}" of max(0, int(sec))
Ts(sec) == LET s == Max(0, sec) IN <<Digits(s \div 60), s % 60>>

\* _add_ts: the video url with its t query parameter set to "<start>s"
AddTs(url, start_sec) == [base |-> url, t |-> start_sec]

\* the url index_videos stores for a video id: f"https://youtu.be/{v['id']}"
VideoUrl(vid) == <<"https://youtu.be/", vid>>


-----------------------------------------------------------------------------
(* rag_pipeline.py: the retrieved documents *)

\* a retrieved document: the metadata index_videos stored with the chunk
Doc(vid, s, e) == [video_id |-> vid, start |-> s, end |-> e]

\* the documents a retrieved list of at most MaxDocs entries is drawn from
SmallDocs == {Doc("a", 5, 65), Doc("a", 65, 125), Doc("b", 5, 65)}

\* the video ids of a retrieved list of one document per video
WideVideoIds == <<"j", "i", "h", "g", "f", "e", "d", "c", "b", "a">>

\* a retrieved list of n documents from n distinct videos
WideList(n) == [i \in 1..n |-> Doc(WideVideoIds[i], IF i % 2 = 0 THEN 5 ELSE 65, 125)]

\* what a retrieval bounded by `limit` documents may return
Retrievable(limit) ==
    {l \in SeqsUpTo(SmallDocs, MaxDocs) \cup {WideList(EndpointK), WideList(DefaultK)} :
        Len(l) <= limit}

\* the k arguments answer_question is called with: None (app.py) and 8 (main.py)
KArgs == {<<>>, <<EndpointK>>}

\* answer_question, step 1: which retrieval call is made for the argument k
RetrievalCall(kk) == IF kk # <<>> THEN "similarity_search" ELSE "invoke"

\* the bound on the retrieved list: k when given, else the k of build_rag_pipeline
RetrievalLimit(kk) == IF kk # <<>> THEN kk[1] ELSE DefaultK

\* build_rag_pipeline(vector_store, k): the search the retriever is configured with,
\* as_retriever(search_type="mmr", search_kwargs={k, fetch_k, lambda_mult})
Retriever(kk) ==
    [search_type |-> "mmr", k |-> kk, fetch_k |-> Max(20, kk * 4), lambda_mult |-> "0.5"]

\* the search a retrieval call runs: retriever.vectorstore.similarity_search(question,
\* k=k) ranks by similarity alone, retriever.invoke(question) runs the retriever's
\* configured search
SearchOf(call, kk) ==
    IF call = "similarity_search"
    THEN [search_type |-> "similarity", k |-> kk[1]]
    ELSE Retriever(DefaultK)

-----------------------------------------------------------------------------
(* rag_pipeline.py: tagging *)

RECURSIVE BuildVideoTagsFrom(_, _, _)
BuildVideoTagsFrom(ds, tags, order) ==
    IF ds = <<>> THEN tags
    ELSE LET vid == Head(ds).video_id
         IN  IF vid \notin DOMAIN tags
             THEN BuildVideoTagsFrom(Tail(ds),
                                     tags @@ (vid :> Digits(Len(order) + 1)),
                                     Append(order, vid))
             ELSE BuildVideoTagsFrom(Tail(ds), tags, order)

\* a mutant: the tag is numbered by the document's position, not by the videos seen
BuildVideoTagsByPosition(ds) ==
    [vid \in {ds[i].video_id : i \in 1..Len(ds)} |->
        Digits(CHOOSE i \in 1..Len(ds) :
                   /\ ds[i].video_id = vid
                   /\ \A j \in 1..Len(ds) : ds[j].video_id = vid => j >= i)]

\* _build_video_tags: video_id -> "V<n>" in first-seen order
BuildVideoTags(ds) == BuildVideoTagsFrom(ds, <<>>, <<>>)

\* ref_ids = [f"#{i+1}" for i in range(len(docs))]
RefIds(ds) == [i \in 1..Len(ds) |-> Digits(i)]

\* _doc_with_bracket_prefix: the header "[#N VX M:SS-M:SS] " put before the text
DocWithBracketPrefix(d, ref_id, vtag) ==
    [kind |-> "header", id |-> ref_id, tag |-> vtag, times |-> <<Ts(d.start), Ts(d.end)>>]

\* docs_for_llm
DocsForLlm(ds, rids, tags) ==
    [i \in 1..Len(ds) |-> DocWithBracketPrefix(ds[i], rids[i], tags[ds[i].video_id])]

-----------------------------------------------------------------------------
(* The generated answer: a sequence of tokens.                             *)
(*   "ref"    "[#N]"                 matched by \[#(\d+)\]                  *)
(*   "header" "[#N VX M:SS-M:SS]"    not matched by \[#(\d+)\]; its two    *)
(*                                   timestamps match \b(\d{1,2}:\d{2})\b  *)
(*   "time"   "M:SS"                 matched by \b(\d{1,2}:\d{2})\b        *)

RefToken(id) == [kind |-> "ref", id |-> id, tag |-> <<>>, times |-> <<>>]

TimeToken(t) == [kind |-> "time", id |-> <<>>, tag |-> <<>>, times |-> <<t>>]

\* the reference ids a generated answer may name in a bare "[#N]": those of the first
\* and the last document, one past the last, and "#01"
AnswerRefIds(n) == {Digits(1), Digits(n), Digits(n + 1), <<0, 1>>}

\* the timestamps a generated answer may name on their own: "0:05", "1:05", "01:05"
AnswerTimes == {Ts(5), Ts(65), <<<<0, 1>>, 5>>}

\* the tokens of an answer generated from the context `context`: the headers of its
\* first and last document, copied, bare references and bare timestamps
AnswerTokens(context) ==
    {context[i] : i \in {1, Len(context)} \cap DOMAIN context}
    \cup {RefToken(id) : id \in AnswerRefIds(Len(context))}
    \cup {TimeToken(t) : t \in AnswerTimes}

\* what stuff_chain.invoke may return for the context
Answers(context) == SeqsUpTo(AnswerTokens(context), MaxAnswerLen)

-----------------------------------------------------------------------------
(* rag_pipeline.py: _build_used_order *)

RECURSIVE RefMatches(_)
\* re.finditer(r"\[#(\d+)\]", answer): f"#{m.group(1)}" of each match, left to right
RefMatches(answer) ==
    IF answer = <<>> THEN <<>>
    ELSE IF Head(answer).kind = "ref"
         THEN <<Head(answer).id>> \o RefMatches(Tail(answer))
         ELSE RefMatches(Tail(answer))

RECURSIVE TimeMatches(_)
\* re.finditer(r"\b(\d{1,2}:\d{2})\b", answer): the matches, left to right
TimeMatches(answer) ==
    IF answer = <<>> THEN <<>> ELSE Head(answer).times \o TimeMatches(Tail(answer))

RECURSIVE AppendDistinct(_, _)
\* for x in xs: if x not in acc: acc.append(x)
AppendDistinct(acc, xs) ==
    IF xs = <<>> THEN acc
    ELSE AppendDistinct(IF Head(xs) \in Range(acc) THEN acc ELSE Append(acc, Head(xs)),
                        Tail(xs))

RECURSIVE CollectRefsUnchecked(_, _, _)
\* a mutant: `rid in refs` is not checked
CollectRefsUnchecked(ms, refs, order) ==
    IF ms = <<>> THEN order
    ELSE CollectRefsUnchecked(Tail(ms), refs,
                              IF Head(ms) \notin Range(order)
                              THEN Append(order, Head(ms)) ELSE order)

RECURSIVE CollectRefs(_, _, _)
\* the loop over the [#N] matches: a known id not yet in order is appended
CollectRefs(ms, refs, order) ==
    IF ms = <<>> THEN order
    ELSE CollectRefs(Tail(ms), refs,
                     IF Head(ms) \in Range(refs) /\ Head(ms) \notin Range(order)
                     THEN Append(order, Head(ms)) ELSE order)

\* a mutant: the inner loop keeps the last match instead of breaking at the first
FirstMatchLast(t, refs, fallback_timestamps, order) ==
    LET n == Min(Len(refs), Len(fallback_timestamps))
        hits == {i \in 1..n : fallback_timestamps[i] = t /\ refs[i] \notin Range(order)}
    IN  IF hits = {} THEN 0 ELSE CHOOSE i \in hits : \A j \in hits : i >= j

\* the inner loop of the fallback: the first (rid, ts) of zip(refs, fallback_timestamps)
\* with ts == t and rid not in order; 0 when there is none
FirstMatch(t, refs, fallback_timestamps, order) ==
    LET n == Min(Len(refs), Len(fallback_timestamps))
        hits == {i \in 1..n : fallback_timestamps[i] = t /\ refs[i] \notin Range(order)}
    IN  IF hits = {} THEN 0 ELSE CHOOSE i \in hits : \A j \in hits : i <= j

RECURSIVE MatchTimes(_, _, _, _)
\* the outer loop of the fallback, over the distinct timestamps of the answer
MatchTimes(used_ts, refs, fallback_timestamps, order) ==
    IF used_ts = <<>> THEN order
    ELSE LET i == FirstMatch(Head(used_ts), refs, fallback_timestamps, order)
         IN  MatchTimes(Tail(used_ts), refs, fallback_timestamps,
                        IF i = 0 THEN order ELSE Append(order, refs[i]))

\* whether _build_used_order gets past `if order: return order`
FallbackReached(answer, refs) == CollectRefs(RefMatches(answer), refs, <<>>) = <<>>

\* _build_used_order
BuildUsedOrder(answer, refs, fallback_timestamps) ==
    IF ~FallbackReached(answer, refs)
    THEN CollectRefs(RefMatches(answer), refs, <<>>)
    ELSE MatchTimes(AppendDistinct(<<>>, TimeMatches(answer)), refs,
                    fallback_timestamps, <<>>)

-----------------------------------------------------------------------------
(* rag_pipeline.py: _build_citations *)

\* one entry of items
CitationItem(d, ref_id, tags) ==
    [ref_id     |-> ref_id,
     video_tag  |-> tags[d.video_id],
     timestamp  |-> Ts(d.start),
     url        |-> AddTs(VideoUrl(d.video_id), d.start),
     video_url  |-> VideoUrl(d.video_id),
     start      |-> d.start,
     used       |-> FALSE]

\* items, from zip(docs, ref_ids)
Items(ds, rids, tags) ==
    [i \in 1..Min(Len(ds), Len(rids)) |-> CitationItem(ds[i], rids[i], tags)]

\* ref_to_item[rid]: a dict comprehension keeps the last item of a key
RefToItem(items, rid) ==
    CHOOSE i \in 1..Len(items) :
        /\ items[i].ref_id = rid
        /\ \A j \in 1..Len(items) : items[j].ref_id = rid => j <= i

RECURSIVE UsedFirst(_, _, _)
\* the loop over used_order: the indices of the items marked used, in that order
UsedFirst(items, order, acc) ==
    IF order = <<>> THEN acc
    ELSE LET rid == Head(order)
         IN  IF /\ \E i \in 1..Len(items) : items[i].ref_id = rid
                /\ RefToItem(items, rid) \notin Range(acc)
             THEN UsedFirst(items, Tail(order), Append(acc, RefToItem(items, rid)))
             ELSE UsedFirst(items, Tail(order), acc)

\* the sort key (x["video_tag"], x["start"]): strings compare as strings
SortKeyLess(a, b) ==
    \/ StrLess(a.video_tag, b.video_tag)
    \/ a.video_tag = b.video_tag /\ a.start < b.start

\* one insertion of a stable sort: x goes before the first entry its key is below
InsertSorted(sorted, x) ==
    LET later == {j \in 1..Len(sorted) : SortKeyLess(x, sorted[j])}
        at == IF later = {} THEN Len(sorted) + 1
              ELSE CHOOSE j \in later : \A j2 \in later : j <= j2
    IN  SubSeq(sorted, 1, at - 1) \o <<x>> \o SubSeq(sorted, at, Len(sorted))

RECURSIVE SortByKey(_, _)
\* list.sort(key=...): stable
SortByKey(xs, sorted) ==
    IF xs = <<>> THEN sorted ELSE SortByKey(Tail(xs), InsertSorted(sorted, Head(xs)))

\* a mutant: every item goes to others, the used ones as well
OthersUnfiltered(items, used_idx) == SortByKey(items, <<>>)

\* others: the items not marked used, sorted
Others(items, used_idx) ==
    SortByKey(SelectSeq([i \in 1..Len(items) |-> [items[i] EXCEPT !.used = i \in Range(used_idx)]],
                        LAMBDA c : ~c.used),
              <<>>)

\* citations_sorted = used_first + others
CitationsSorted(items, used_idx) ==
    [n \in 1..Len(used_idx) |-> [items[used_idx[n]] EXCEPT !.used = TRUE]]
    \o Others(items, used_idx)

\* source_videos: the distinct non-empty video urls in citation order
SourceVideos(cits) ==
    AppendDistinct(<<>>, [n \in 1..Len(cits) |-> cits[n].video_url])

\* _build_citations
BuildCitations(ds, rids, tags, order) ==
    LET items == Items(ds, rids, tags)
        cits  == CitationsSorted(items, UsedFirst(items, order, <<>>))
    IN  [citations |-> cits, source_videos |-> SourceVideos(cits)]

-----------------------------------------------------------------------------
(* rag_pipeline.py: answer_question *)

\* the answer returned when retrieval found nothing
NoResultsAnswer ==
    [kind |-> "fixed",
     text |-> "I couldn't find relevant transcript segments for that question.",
     tokens |-> <<>>]

\* the answer returned otherwise: what the generator wrote
GeneratedAnswer(answer) == [kind |-> "generated", text |-> "", tokens |-> answer]

\* a mutant: the empty retrieval is not short-circuited
NoDocsNever(ds) == FALSE

\* `if not docs`
NoDocs(ds) == ds = <<>>

\* fallback_timestamps=[_ts(int(d.metadata.get("start", 0))) for d in docs]
FallbackTimestamps(ds) == [i \in 1..Len(ds) |-> Ts(ds[i].start)]

QInit ==
    /\ qpc = "idle"
    /\ k = <<>>
    /\ retrieval = "none"
    /\ docs = <<>>
    /\ video_tags = <<>>
    /\ ref_ids = <<>>
    /\ llm_invoked = FALSE
    /\ final_answer = GeneratedAnswer(<<>>)
    /\ used_order = <<>>
    /\ fallback_taken = FALSE
    /\ citations = <<>>
    /\ source_videos = <<>>
    /\ raised = FALSE

\* one call answer_question(question, stuff_chain, retriever, return_metadata=True, k)
AnswerQuestion ==
    /\ qpc = "idle"
    /\ \E kk \in KArgs : \E retrieved \in Retrievable(RetrievalLimit(kk)) :
        /\ k' = kk
        /\ retrieval' = RetrievalCall(kk)
        /\ docs' = retrieved
        /\ IF NoDocs(retrieved)
           THEN /\ final_answer' = NoResultsAnswer
                /\ citations' = <<>>
                /\ source_videos' = <<>>
                /\ video_tags' = <<>>
                /\ ref_ids' = <<>>
                /\ llm_invoked' = FALSE
                /\ used_order' = <<>>
                /\ fallback_taken' = FALSE
           ELSE LET tags == BuildVideoTags(retrieved)
                    rids == RefIds(retrieved)
                IN  \E answer \in Answers(DocsForLlm(retrieved, rids, tags)) :
                        /\ video_tags' = tags
                        /\ ref_ids' = rids
                        /\ llm_invoked' = TRUE
                        /\ final_answer' = GeneratedAnswer(answer)
                        /\ used_order' = BuildUsedOrder(answer, rids, FallbackTimestamps(retrieved))
                        /\ fallback_taken' = FallbackReached(answer, rids)
                        /\ \E built \in {BuildCitations(retrieved, rids, tags, used_order')} :
                            /\ citations' = built.citations
                            /\ source_videos' = built.source_videos
    /\ raised' = FALSE
    /\ qpc' = "done"
    /\ UNCHANGED <<ivars, svars>>

\* the caller takes the result; the call's locals are gone
AnswerReturned ==
    /\ qpc = "done"
    /\ qpc' = "idle"
    /\ k' = <<>>
    /\ retrieval' = "none"
    /\ docs' = <<>>
    /\ video_tags' = <<>>
    /\ ref_ids' = <<>>
    /\ llm_invoked' = FALSE
    /\ final_answer' = GeneratedAnswer(<<>>)
    /\ used_order' = <<>>
    /\ fallback_taken' = FALSE
    /\ citations' = <<>>
    /\ source_videos' = <<>>
    /\ raised' = FALSE
    /\ UNCHANGED <<ivars, svars>>

-----------------------------------------------------------------------------
(* ingest.py: constants, urls *)

\* CHUNK_SIZE
ChunkSize == 500
\* CHUNK_OVERLAP
ChunkOverlap == 100
\* batch_size: int = 256
DefaultBatchSize == 256

\* the longest urls argument
MaxUrls == 2

\* Python's None, and a value that is not None
None == <<>>

Some(x) == <<x>>

\* a url, by what index_videos reads of it: urlparse's netloc, its path as segments
\* ("/" and names), and the values of the query parameters v and list
Url(netloc, path, v, list) == [netloc |-> netloc, path |-> path, v |-> v, list |-> list]

\* the urls a call is given: "  ", https://youtu.be/a, https://www.youtube.com/watch?v=b,
\* https://www.youtube.com/playlist?list=P, https://example.com/a,
\* https://www.youtube.com/playlist
TestUrls ==
    {Url("", <<>>, None, None),
     Url("youtu.be", <<"/", "a">>, None, None),
     Url("www.youtube.com", <<"/", "watch">>, Some("b"), None),
     Url("www.youtube.com", <<"/", "playlist">>, None, Some("P")),
     Url("example.com", <<"/", "a">>, None, None),
     Url("www.youtube.com", <<"/", "playlist">>, None, None)}

\* `not u` for u = raw.strip()
IsBlank(u) == u.netloc = "" /\ u.path = <<>> /\ u.v = None /\ u.list = None

\* "list=" in u or "/playlist" in u
LooksLikePlaylist(u) ==
    \/ u.list # None
    \/ \E i \in 1..(Len(u.path) - 1) : u.path[i] = "/" /\ u.path[i + 1] = "playlist"

RECURSIVE Lstrip(_)
\* parsed.path.lstrip("/")
Lstrip(path) ==
    IF path = <<>> THEN ""
    ELSE IF Head(path) = "/" THEN Lstrip(Tail(path))
    ELSE Head(path)

\* extract_video_id: Some(id), or None when it raises ValueError
ExtractVideoId(u) ==
    IF u.netloc \in {"youtube.com", "www.youtube.com", "m.youtube.com"} /\ u.v # None
    THEN Some(u.v[1])
    ELSE IF u.netloc \in {"youtu.be"} THEN Some(Lstrip(u.path))
    ELSE None

\* extract_playlist_id: Some(id), or None when it raises ValueError
ExtractPlaylistId(u) == IF u.list # None THEN Some(u.list[1]) ELSE None

\* one entry of videos
Video(id, title, index, playlist_id) ==
    [id |-> id, title |-> title, index |-> index, playlist_id |-> playlist_id]

\* get_video_ids_from_playlist, when the API answers: the items of the playlist,
\* numbered from 0 (the second one has an empty title)
PlaylistItems(pid) ==
    IF pid = "P"
    THEN <<Video("a", <<"Intro">>, Some(0), Some(pid)), Video("b", <<>>, Some(1), Some(pid))>>
    ELSE <<>>

\* one iteration of the loop over urls: how the url was taken and the videos added.
\* The playlist API may raise (no key, no network); every exception is a warning.
ResolveOutcomes(u) ==
    IF IsBlank(u) THEN {[how |-> "blank", found |-> <<>>]}
    ELSE IF LooksLikePlaylist(u)
    THEN IF ExtractPlaylistId(u) = None
         THEN {[how |-> "warning", found |-> <<>>]}
         ELSE {[how |-> "warning", found |-> <<>>],
               [how |-> "playlist", found |-> PlaylistItems(ExtractPlaylistId(u)[1])]}
    ELSE IF ExtractVideoId(u) = None
         THEN {[how |-> "warning", found |-> <<>>]}
         ELSE {[how |-> "video",
                found |-> <<Video(ExtractVideoId(u)[1], <<"Video ", ExtractVideoId(u)[1]>>,
                                  None, None)>>]}

-----------------------------------------------------------------------------
(* ingest.py: transcripts, snippets, chunks *)

\* a piece of raw text: a run of whitespace or a run of other characters, with its length
Blank(n) == [ws |-> TRUE, w |-> " ", len |-> n]

Word(w, n) == [ws |-> FALSE, w |-> w, len |-> n]

RECURSIVE Collapse(_)
\* re.sub(r"\s+", " ", text)
Collapse(text) ==
    IF text = <<>> THEN <<>>
    ELSE IF Head(text).ws
         THEN IF Len(text) > 1 /\ text[2].ws THEN Collapse(Tail(text))
              ELSE <<Blank(1)>> \o Collapse(Tail(text))
         ELSE <<Head(text)>> \o Collapse(Tail(text))

\* str.strip()
Strip(text) ==
    LET from == IF text # <<>> /\ text[1].ws THEN 2 ELSE 1
        to   == IF Len(text) >= from /\ text[Len(text)].ws THEN Len(text) - 1 ELSE Len(text)
    IN  SubSeq(text, from, to)

\* utils.clean_transcript
CleanTranscript(text) == Strip(Collapse(text))

RECURSIVE TextLen(_)
\* len(text)
TextLen(text) == IF text = <<>> THEN 0 ELSE Head(text).len + TextLen(Tail(text))

\* splitter.split_text: nothing for an empty text, the text itself when it fits
\* CHUNK_SIZE, else pieces of at most CHUNK_SIZE that overlap by CHUNK_OVERLAP
SplitText(text) ==
    LET n == TextLen(text)
        step == ChunkSize - ChunkOverlap
        count == IF n = 0 THEN 0
                 ELSE IF n <= ChunkSize THEN 1
                 ELSE 1 + ((n - ChunkSize + step - 1) \div step)
    IN  [i \in 1..count |-> [of |-> text, part |-> i]]

\* one caption cue of to_raw_data(): start and duration in tenths of a second
Snippet(text, start, duration) == [text |-> text, start |-> start, duration |-> duration]

\* the transcripts a fetch may return
Transcripts ==
    {<<Snippet(<<Blank(2), Word("hello", 5), Blank(1)>>, 12, 20),
       Snippet(<<Word("again", 5)>>, 17, 20),
       Snippet(<<Word("lorem", 300), Blank(3), Word("ipsum", 299)>>, 30, 55)>>,
     <<Snippet(<<Blank(4)>>, 30, 10)>>}

\* fetch_transcript_for_video: Some(transcript), or None when it raises
FetchResults == {None} \cup {Some(t) : t \in Transcripts}

\* a mutant: the key keeps the start as fetched, without int()
SnippetKeyExact(vid, snip) == <<vid, snip.start>>

\* key = (v["id"], int(snip["start"]))
SnippetKey(vid, snip) == <<vid, snip.start \div 10>>

\* the raw doc of a snippet
RawDoc(v, snip) ==
    LET start_s == snip.start \div 10
    IN  [content  |-> CleanTranscript(snip.text),
         metadata |-> [video_id          |-> v.id,
                       title             |-> IF v.title # <<>> THEN v.title
                                             ELSE <<"Video ", v.id>>,
                       video_url         |-> VideoUrl(v.id),
                       playlist_id       |-> v.playlist_id,
                       index_in_playlist |-> v.index,
                       start             |-> start_s,
                       end               |-> start_s + (snip.duration \div 10),
                       duration          |-> snip.duration,
                       lang              |-> "en"]]

RECURSIVE AddSnippets(_, _, _, _)
\* the loop over the snippets of one transcript
AddSnippets(v, transcript, seen, ds) ==
    IF transcript = <<>> THEN [seen |-> seen, docs |-> ds, aborted |-> FALSE]
    ELSE LET snip == Head(transcript)
             key  == SnippetKey(v.id, snip)
         IN  IF key \in seen
             THEN AddSnippets(v, Tail(transcript), seen, ds)
             ELSE AddSnippets(v, Tail(transcript), seen \cup {key}, Append(ds, RawDoc(v, snip)))

\* a mutant: a failed fetch is not caught
FetchOneUncaught(v, result, seen, ds) ==
    IF result = None THEN [seen |-> seen, docs |-> ds, aborted |-> TRUE]
    ELSE AddSnippets(v, result[1], seen, ds)

\* one iteration of the loop over videos: a failed fetch is a warning
FetchOne(v, result, seen, ds) ==
    IF result = None THEN [seen |-> seen, docs |-> ds, aborted |-> FALSE]
    ELSE AddSnippets(v, result[1], seen, ds)

\* `if not docs`
NoSnippets(ds) == ds = <<>>

RECURSIVE ChunkDocs(_)
\* the chunking loop: every piece of a doc with the doc's metadata
ChunkDocs(ds) ==
    IF ds = <<>> THEN <<>>
    ELSE LET pieces == SplitText(Head(ds).content)
         IN  [i \in 1..Len(pieces) |-> [text |-> pieces[i], metadata |-> Head(ds).metadata]]
             \o ChunkDocs(Tail(ds))

\* a mutant: the check for no chunks is gone
NoChunksNever(cs) == FALSE

\* `if total_chunks == 0`
NoChunks(cs) == Len(cs) = 0

\* a mutant: an existing index is never loaded
ShouldLoadNever(ow, persisted) == FALSE

\* `if not overwrite and os.path.exists(persist_path)`
ShouldLoad(ow, persisted) == ~ow /\ persisted # None

\* chunked_texts[i : i + batch_size] and chunked_metadatas[i : i + batch_size]
Batch(cs, i, size) == SubSeq(cs, i + 1, Min(i + size, Len(cs)))

\* _add_batch_to_index: FAISS.from_texts for None, else vs.add_texts
AddBatchToIndex(vs, batch) == IF vs = None THEN Some(batch) ELSE Some(vs[1] \o batch)

-----------------------------------------------------------------------------
(* ingest.py: index_videos, and main.py: index_videos_endpoint *)

\* the calls: index_videos_endpoint calls index_videos(req.urls, persist_path,
\* overwrite=False); a direct caller chooses overwrite and batch_size
Calls ==
    {[via_endpoint |-> TRUE, overwrite |-> FALSE, batch_size |-> DefaultBatchSize]}
    \cup {[via_endpoint |-> FALSE, overwrite |-> ow, batch_size |-> 1] : ow \in BOOLEAN}
    \cup {[via_endpoint |-> FALSE, overwrite |-> TRUE, batch_size |-> DefaultBatchSize]}

\* the index an earlier call index_videos(["https://youtu.be/a"]) persisted
OldIndex ==
    ChunkDocs(FetchOne(Video("a", <<"Video ", "a">>, None, None),
                       Some(<<Snippet(<<Word("earlier", 7)>>, 12, 20)>>), {}, <<>>).docs)

\* no call is running
IIdle ==
    /\ ipc = "idle"
    /\ urls = <<>>
    /\ overwrite = FALSE
    /\ batch_size = DefaultBatchSize
    /\ via_endpoint = FALSE
    /\ resolved = <<>>
    /\ videos = <<>>
    /\ fetched = <<>>
    /\ seen_snippets = {}
    /\ snippet_docs = <<>>
    /\ chunks = <<>>
    /\ vector_store = None
    /\ batch_i = 0
    /\ outcome = "running"

\* a fresh process with nothing persisted
IFresh ==
    /\ IIdle
    /\ disk = None
    /\ disk_mtime = 0
    /\ pipeline = None
    /\ vs_mtime = 0
    /\ disk0 = [disk |-> None, mtime |-> 0]
    /\ pipeline0 = [pipeline |-> None, vs_mtime |-> 0]

\* a process with nothing persisted, or with an index persisted by an earlier call
\* and either no cached pipeline or the pipeline /ask_question cached for that index
IInit ==
    /\ IIdle
    /\ \E persisted \in {None, Some(OldIndex)} :
        /\ disk = persisted
        /\ disk_mtime = IF persisted = None THEN 0 ELSE 1
        /\ \E cached \in {None, persisted} :
            /\ pipeline = cached
            /\ vs_mtime = IF cached = None THEN 0 ELSE 1
    /\ disk0 = [disk |-> disk, mtime |-> disk_mtime]
    /\ pipeline0 = [pipeline |-> pipeline, vs_mtime |-> vs_mtime]

\* the call starts: index_videos(urls, persist_path, overwrite, batch_size)
IndexVideos ==
    /\ ipc = "idle"
    /\ \E call \in Calls : \E us \in SeqsUpTo(TestUrls, MaxUrls) :
        /\ via_endpoint' = call.via_endpoint
        /\ overwrite' = call.overwrite
        /\ batch_size' = call.batch_size
        /\ urls' = us
    /\ ipc' = "collect"
    /\ UNCHANGED <<resolved, videos, fetched, seen_snippets, snippet_docs, chunks,
                   vector_store, batch_i, disk, disk_mtime, disk0, pipeline, vs_mtime,
                   pipeline0, outcome>>
    /\ UNCHANGED <<qvars, svars>>

\* 1) one iteration of `for raw in urls`
ResolveUrl ==
    /\ ipc = "collect"
    /\ Len(resolved) < Len(urls)
    /\ \E r \in ResolveOutcomes(urls[Len(resolved) + 1]) :
        /\ resolved' = Append(resolved, r.how)
        /\ videos' = videos \o r.found
    /\ UNCHANGED <<ipc, urls, overwrite, batch_size, via_endpoint, fetched, seen_snippets,
                   snippet_docs, chunks, vector_store, batch_i, disk, disk_mtime, disk0,
                   pipeline, vs_mtime, pipeline0, outcome>>
    /\ UNCHANGED <<qvars, svars>>

\* the loop over urls is over
UrlsResolved ==
    /\ ipc = "collect"
    /\ Len(resolved) = Len(urls)
    /\ ipc' = "fetch"
    /\ UNCHANGED <<urls, overwrite, batch_size, via_endpoint, resolved, videos, fetched,
                   seen_snippets, snippet_docs, chunks, vector_store, batch_i, disk,
                   disk_mtime, disk0, pipeline, vs_mtime, pipeline0, outcome>>
    /\ UNCHANGED <<qvars, svars>>

\* 2) one iteration of `for v in video_iter`
FetchTranscript ==
    /\ ipc = "fetch"
    /\ Len(fetched) < Len(videos)
    /\ \E result \in FetchResults :
        LET r == FetchOne(videos[Len(fetched) + 1], result, seen_snippets, snippet_docs)
        IN  /\ fetched' = Append(fetched, result)
            /\ seen_snippets' = r.seen
            /\ snippet_docs' = r.docs
            /\ ipc' = IF r.aborted THEN "done" ELSE "fetch"
            /\ outcome' = IF r.aborted THEN "error" ELSE outcome
    /\ UNCHANGED <<urls, overwrite, batch_size, via_endpoint, resolved, videos, chunks,
                   vector_store, batch_i, disk, disk_mtime, disk0, pipeline, vs_mtime,
                   pipeline0>>
    /\ UNCHANGED <<qvars, svars>>

\* `if not docs: raise`, then 3) chunking
ChunkSnippets ==
    /\ ipc = "fetch"
    /\ Len(fetched) = Len(videos)
    /\ IF NoSnippets(snippet_docs)
       THEN /\ ipc' = "done"
            /\ outcome' = "error"
            /\ chunks' = chunks
       ELSE /\ ipc' = "load"
            /\ outcome' = outcome
            /\ chunks' = ChunkDocs(snippet_docs)
    /\ UNCHANGED <<urls, overwrite, batch_size, via_endpoint, resolved, videos, fetched,
                   seen_snippets, snippet_docs, vector_store, batch_i, disk, disk_mtime,
                   disk0, pipeline, vs_mtime, pipeline0>>
    /\ UNCHANGED <<qvars, svars>>

\* 4) FAISS.load_local of an existing index, then `if total_chunks == 0: raise`
LoadExisting ==
    /\ ipc = "load"
    /\ vector_store' = IF ShouldLoad(overwrite, disk) THEN disk ELSE None
    /\ IF NoChunks(chunks)
       THEN ipc' = "done" /\ outcome' = "error"
       ELSE ipc' = "batches" /\ outcome' = outcome
    /\ batch_i' = 0
    /\ UNCHANGED <<urls, overwrite, batch_size, via_endpoint, resolved, videos, fetched,
                   seen_snippets, snippet_docs, chunks, disk, disk_mtime, disk0, pipeline,
                   vs_mtime, pipeline0>>
    /\ UNCHANGED <<qvars, svars>>

\* one iteration of `for i in batch_iter`
AddBatch ==
    /\ ipc = "batches"
    /\ batch_i < Len(chunks)
    /\ vector_store' = AddBatchToIndex(vector_store, Batch(chunks, batch_i, batch_size))
    /\ batch_i' = batch_i + batch_size
    /\ UNCHANGED <<ipc, urls, overwrite, batch_size, via_endpoint, resolved, videos, fetched,
                   seen_snippets, snippet_docs, chunks, disk, disk_mtime, disk0, pipeline,
                   vs_mtime, pipeline0, outcome>>
    /\ UNCHANGED <<qvars, svars>>

\* 5) vector_store.save_local(persist_path), and index_videos returns; None has no
\* save_local
SaveIndex ==
    /\ ipc = "batches"
    /\ batch_i >= Len(chunks)
    /\ IF vector_store = None
       THEN /\ ipc' = "done"
            /\ outcome' = "error"
            /\ UNCHANGED <<disk, disk_mtime>>
       ELSE /\ disk' = vector_store
            /\ disk_mtime' = disk_mtime + 1
            /\ ipc' = IF via_endpoint THEN "refresh" ELSE "done"
            /\ outcome' = IF via_endpoint THEN outcome ELSE "ok"
    /\ UNCHANGED <<urls, overwrite, batch_size, via_endpoint, resolved, videos, fetched,
                   seen_snippets, snippet_docs, chunks, vector_store, batch_i, disk0,
                   pipeline, vs_mtime, pipeline0>>
    /\ UNCHANGED <<qvars, svars>>

\* index_videos_endpoint after index_videos returned: the cached pipeline is replaced
\* by one over the in-memory store
RefreshPipeline ==
    /\ ipc = "refresh"
    /\ pipeline' = vector_store
    /\ vs_mtime' = disk_mtime
    /\ ipc' = "done"
    /\ outcome' = "ok"
    /\ UNCHANGED <<urls, overwrite, batch_size, via_endpoint, resolved, videos, fetched,
                   seen_snippets, snippet_docs, chunks, vector_store, batch_i, disk,
                   disk_mtime, disk0, pipeline0>>
    /\ UNCHANGED <<qvars, svars>>

-----------------------------------------------------------------------------
(* main.py: the endpoints, each request served by a thread of the server's pool *)

\* the number of requests in flight
MaxThreads == 2

Threads == 1..MaxThreads

\* no request has arrived
SIdle ==
    /\ lock = 0
    /\ clock = 0
    /\ tpc = [t \in Threads |-> "idle"]
    /\ treq = [t \in Threads |-> "none"]
    /\ tchunks = [t \in Threads |-> <<>>]
    /\ tstore = [t \in Threads |-> None]
    /\ tmtime = [t \in Threads |-> 0]

\* the variables of the single call of SpecIngest, which the server does not use
icall == <<ipc, urls, overwrite, batch_size, via_endpoint, resolved, videos, fetched,
           seen_snippets, snippet_docs, chunks, vector_store, batch_i, disk0, pipeline0,
           outcome>>

\* the urls of a request body {"urls": [u]}: https://youtu.be/a and
\* https://www.youtube.com/watch?v=b
RequestUrls ==
    {u \in TestUrls : ~IsBlank(u) /\ ~LooksLikePlaylist(u) /\ ExtractVideoId(u) # None}

\* steps 1) to 3) of index_videos([u]) when the transcript fetch gives `result`:
\* Some(chunks), or None when `if not docs` raises
RequestChunks(u, result) ==
    LET found == (CHOOSE r \in ResolveOutcomes(u) : TRUE).found
        ds    == FetchOne(found[1], result, {}, <<>>).docs
    IN  IF NoSnippets(ds) THEN None ELSE Some(ChunkDocs(ds))

\* _vector_store_exists(VECTOR_STORE_PATH)
VectorStoreExists == disk # None

\* _vector_store_mtime(VECTOR_STORE_PATH): 0 is None
VectorStoreMtime == IF VectorStoreExists THEN disk_mtime ELSE 0

\* _ensure_pipeline, lines 80-82: the cached pipeline is fresh
CacheFresh(on_disk_mtime) ==
    /\ pipeline # None
    /\ vs_mtime # 0
    /\ on_disk_mtime # 0
    /\ vs_mtime = on_disk_mtime

\* POST /index_videos arrives at thread t: index_videos collects, fetches and chunks
IndexRequest(t) ==
    /\ tpc[t] = "idle"
    /\ treq' = [treq EXCEPT ![t] = "index"]
    /\ \E u \in RequestUrls : \E result \in FetchResults :
        LET cs == RequestChunks(u, result)
        IN  IF cs = None
            THEN /\ tpc' = [tpc EXCEPT ![t] = "error"]
                 /\ tchunks' = tchunks
            ELSE /\ tpc' = [tpc EXCEPT ![t] = "idx_exists"]
                 /\ tchunks' = [tchunks EXCEPT ![t] = cs[1]]
    /\ UNCHANGED <<lock, clock, tstore, tmtime, disk, disk_mtime, pipeline, vs_mtime>>
    /\ UNCHANGED <<qvars, icall>>

\* index_videos, `if not overwrite and os.path.exists(persist_path)` with
\* overwrite=False: FAISS.load_local starts, no lock held
IdxLoadBegin(t) ==
    /\ tpc[t] = "idx_exists"
    /\ tpc' = [tpc EXCEPT ![t] = IF ShouldLoad(FALSE, disk) THEN "idx_loading"
                                  ELSE "idx_add"]
    /\ UNCHANGED <<lock, clock, treq, tchunks, tstore, tmtime, disk, disk_mtime, pipeline,
                   vs_mtime>>
    /\ UNCHANGED <<qvars, icall>>

\* FAISS.load_local reads the persisted files; it raises when /reset removed them
IdxLoadEnd(t) ==
    /\ tpc[t] = "idx_loading"
    /\ IF VectorStoreExists
       THEN /\ tstore' = [tstore EXCEPT ![t] = disk]
            /\ tpc' = [tpc EXCEPT ![t] = "idx_add"]
       ELSE /\ tstore' = tstore
            /\ tpc' = [tpc EXCEPT ![t] = "error"]
    /\ UNCHANGED <<lock, clock, treq, tchunks, tmtime, disk, disk_mtime, pipeline, vs_mtime>>
    /\ UNCHANGED <<qvars, icall>>

\* the batches (one batch: batch_size is 256) are added in memory, and
\* vector_store.save_local(persist_path) writes the files
IdxSave(t) ==
    /\ tpc[t] = "idx_add"
    /\ LET vs == AddBatchToIndex(tstore[t], Batch(tchunks[t], 0, DefaultBatchSize))
       IN  /\ tstore' = [tstore EXCEPT ![t] = vs]
           /\ disk' = vs
    /\ clock' = clock + 1
    /\ disk_mtime' = clock + 1
    /\ tpc' = [tpc EXCEPT ![t] = "idx_build"]
    /\ UNCHANGED <<lock, treq, tchunks, tmtime, pipeline, vs_mtime>>
    /\ UNCHANGED <<qvars, icall>>

\* index_videos_endpoint, line 134: build_rag_pipeline(vector_store), no lock held
IdxBuild(t) ==
    /\ tpc[t] = "idx_build"
    /\ tpc' = [tpc EXCEPT ![t] = "idx_lock"]
    /\ UNCHANGED <<lock, clock, treq, tchunks, tstore, tmtime, disk, disk_mtime, pipeline,
                   vs_mtime>>
    /\ UNCHANGED <<qvars, icall>>

\* index_videos_endpoint, line 135: `with app.state.pipeline_lock`
IdxLock(t) ==
    /\ tpc[t] = "idx_lock"
    /\ lock = 0
    /\ lock' = t
    /\ tpc' = [tpc EXCEPT ![t] = "idx_assign"]
    /\ UNCHANGED <<clock, treq, tchunks, tstore, tmtime, disk, disk_mtime, pipeline, vs_mtime>>
    /\ UNCHANGED <<qvars, icall>>

\* index_videos_endpoint, lines 136-137: the cache is replaced, the lock released
IdxAssign(t) ==
    /\ tpc[t] = "idx_assign"
    /\ pipeline' = tstore[t]
    /\ vs_mtime' = VectorStoreMtime
    /\ lock' = 0
    /\ tpc' = [tpc EXCEPT ![t] = "ok"]
    /\ UNCHANGED <<clock, treq, tchunks, tstore, tmtime, disk, disk_mtime>>
    /\ UNCHANGED <<qvars, icall>>

\* POST /ask_question arrives at thread t: `if not _vector_store_exists`
AskRequest(t) ==
    /\ tpc[t] = "idle"
    /\ treq' = [treq EXCEPT ![t] = "ask"]
    /\ tpc' = [tpc EXCEPT ![t] = IF VectorStoreExists THEN "ask_lock" ELSE "error"]
    /\ UNCHANGED <<lock, clock, tchunks, tstore, tmtime, disk, disk_mtime, pipeline, vs_mtime>>
    /\ UNCHANGED <<qvars, icall>>

\* _ensure_pipeline, lines 76-82: the lock is taken, the modification time read, and
\* a fresh cached pipeline returned (the lock released)
AskLock(t) ==
    /\ tpc[t] = "ask_lock"
    /\ lock = 0
    /\ tmtime' = [tmtime EXCEPT ![t] = VectorStoreMtime]
    /\ IF CacheFresh(VectorStoreMtime)
       THEN /\ lock' = 0
            /\ tstore' = [tstore EXCEPT ![t] = pipeline]
            /\ tpc' = [tpc EXCEPT ![t] = "ask_answer"]
       ELSE /\ lock' = t
            /\ tstore' = tstore
            /\ tpc' = [tpc EXCEPT ![t] = "ask_exists"]
    /\ UNCHANGED <<clock, treq, tchunks, disk, disk_mtime, pipeline, vs_mtime>>
    /\ UNCHANGED <<qvars, icall>>

\* _ensure_pipeline, lines 84-89: no store raises (the lock released), else
\* _load_vector_store starts
AskLoadBegin(t) ==
    /\ tpc[t] = "ask_exists"
    /\ IF VectorStoreExists
       THEN /\ lock' = lock
            /\ tpc' = [tpc EXCEPT ![t] = "ask_loading"]
       ELSE /\ lock' = 0
            /\ tpc' = [tpc EXCEPT ![t] = "error"]
    /\ UNCHANGED <<clock, treq, tchunks, tstore, tmtime, disk, disk_mtime, pipeline, vs_mtime>>
    /\ UNCHANGED <<qvars, icall>>

\* FAISS.load_local reads the persisted files
AskLoadEnd(t) ==
    /\ tpc[t] = "ask_loading"
    /\ tstore' = [tstore EXCEPT ![t] = disk]
    /\ tpc' = [tpc EXCEPT ![t] = "ask_build"]
    /\ UNCHANGED <<lock, clock, treq, tchunks, tmtime, disk, disk_mtime, pipeline, vs_mtime>>
    /\ UNCHANGED <<qvars, icall>>

\* _ensure_pipeline, lines 90-94: the pipeline is built and cached, the lock released
AskBuild(t) ==
    /\ tpc[t] = "ask_build"
    /\ pipeline' = tstore[t]
    /\ vs_mtime' = tmtime[t]
    /\ lock' = 0
    /\ tpc' = [tpc EXCEPT ![t] = "ask_answer"]
    /\ UNCHANGED <<clock, treq, tchunks, tstore, tmtime, disk, disk_mtime>>
    /\ UNCHANGED <<qvars, icall>>

\* ask_question, lines 155-165: answer_question runs on the pipeline it was given
AskAnswer(t) ==
    /\ tpc[t] = "ask_answer"
    /\ tpc' = [tpc EXCEPT ![t] = "ok"]
    /\ UNCHANGED <<lock, clock, treq, tchunks, tstore, tmtime, disk, disk_mtime, pipeline,
                   vs_mtime>>
    /\ UNCHANGED <<qvars, icall>>

\* POST /reset arrives at thread t, which takes the lock
ResetLock(t) ==
    /\ tpc[t] = "idle"
    /\ lock = 0
    /\ lock' = t
    /\ treq' = [treq EXCEPT ![t] = "reset"]
    /\ tpc' = [tpc EXCEPT ![t] = "reset_clear"]
    /\ UNCHANGED <<clock, tchunks, tstore, tmtime, disk, disk_mtime, pipeline, vs_mtime>>
    /\ UNCHANGED <<qvars, icall>>

\* reset_faiss, lines 112-115: the store is removed, the cache cleared, the lock released
ResetClear(t) ==
    /\ tpc[t] = "reset_clear"
    /\ disk' = None
    /\ disk_mtime' = 0
    /\ pipeline' = None
    /\ vs_mtime' = 0
    /\ lock' = 0
    /\ tpc' = [tpc EXCEPT ![t] = "ok"]
    /\ UNCHANGED <<clock, treq, tchunks, tstore, tmtime>>
    /\ UNCHANGED <<qvars, icall>>

-----------------------------------------------------------------------------
(* The answer composer on its own *)

Init == QInit /\ IFresh /\ SIdle

Next == AnswerQuestion \/ AnswerReturned

Spec == Init /\ [][Next]_vars

(* One index_videos call, directly or through /index_videos *)

InitIngest == QInit /\ IInit /\ SIdle

NextIngest ==
    \/ IndexVideos
    \/ ResolveUrl
    \/ UrlsResolved
    \/ FetchTranscript
    \/ ChunkSnippets
    \/ LoadExisting
    \/ AddBatch
    \/ SaveIndex
    \/ RefreshPipeline

SpecIngest == InitIngest /\ [][NextIngest]_vars

(* Concurrent requests to /index_videos, /ask_question and /reset *)

InitServer ==
    /\ QInit
    /\ IInit
    /\ lock = 0
    /\ clock = disk_mtime
    /\ tpc = [t \in Threads |-> "idle"]
    /\ treq = [t \in Threads |-> "none"]
    /\ tchunks = [t \in Threads |-> <<>>]
    /\ tstore = [t \in Threads |-> None]
    /\ tmtime = [t \in Threads |-> 0]

NextServer ==
    \E t \in Threads :
        \/ IndexRequest(t)
        \/ IdxLoadBegin(t)
        \/ IdxLoadEnd(t)
        \/ IdxSave(t)
        \/ IdxBuild(t)
        \/ IdxLock(t)
        \/ IdxAssign(t)
        \/ AskRequest(t)
        \/ AskLock(t)
        \/ AskLoadBegin(t)
        \/ AskLoadEnd(t)
        \/ AskBuild(t)
        \/ AskAnswer(t)
        \/ ResetLock(t)
        \/ ResetClear(t)

SpecServer == InitServer /\ [][NextServer]_vars

-----------------------------------------------------------------------------
(* Claims about the answer composer (checked under Spec) *)

\* an answer_question call has returned with at least one retrieved document
Answered == qpc = "done" /\ docs # <<>>

\* the positions of the citations carrying reference id rid
CitationsOf(rid) == {n \in 1..Len(citations) : citations[n].ref_id = rid}

\* C1: every retrieved document appears exactly once in the citation list, in the
\* used-first segment or in the others segment: none is duplicated, none is dropped,
\* and the list is as long as the retrieved list.
C1_CitationCompleteness ==
    Answered =>
        /\ Len(citations) = Len(docs)
        /\ \A i \in 1..Len(docs) :
            /\ Cardinality(CitationsOf(ref_ids[i])) = 1
            /\ \A n \in CitationsOf(ref_ids[i]) :
                /\ citations[n].start = docs[i].start
                /\ citations[n].video_url = VideoUrl(docs[i].video_id)

\* C1 witness: a call whose citation list has a used-first segment and an others segment
C1_Witness ==
    /\ Answered
    /\ Len(docs) = MaxDocs
    /\ \E n \in 1..Len(citations) : citations[n].used
    /\ \E n \in 1..Len(citations) : ~citations[n].used

\* the reference ids the answer names, in a bare "[#N]" or in a header "[#N VX ...]"
NamedRefIds ==
    {final_answer.tokens[n].id :
        n \in {m \in 1..Len(final_answer.tokens) :
                  final_answer.tokens[m].kind \in {"ref", "header"}}}

RECURSIVE NamedRefOrder(_)
\* the ids of the "#N" tokens of an answer, bare or in a header, left to right
NamedRefOrder(answer) ==
    IF answer = <<>> THEN <<>>
    ELSE IF Head(answer).kind \in {"ref", "header"}
         THEN <<Head(answer).id>> \o NamedRefOrder(Tail(answer))
         ELSE NamedRefOrder(Tail(answer))

\* C2: whenever the answer contains a reference-id token ("#" and digits, as in a
\* copied header "[#2 V1 1:00-1:05]"), _build_used_order does not take the timestamp
\* fallback, and the used order is the distinct known ids of those tokens in order.
C2_UsedOrderPrecedence ==
    (Answered /\ NamedRefIds # {}) =>
        /\ ~fallback_taken
        /\ used_order =
             AppendDistinct(<<>>, SelectSeq(NamedRefOrder(final_answer.tokens),
                                            LAMBDA rid : rid \in Range(ref_ids)))

\* the answer with every reference id that belongs to no retrieved document taken out:
\* a bare "[#N]" goes, a header keeps its timestamps
StripUnknownRefs(answer, refs) ==
    LET known == SelectSeq(answer, LAMBDA t : ~(t.kind = "ref" /\ t.id \notin Range(refs)))
    IN  [n \in 1..Len(known) |->
            IF known[n].kind = "header" /\ known[n].id \notin Range(refs)
            THEN [known[n] EXCEPT !.id = <<>>] ELSE known[n]]

\* C3: a reference id of the answer that belongs to no retrieved document is not in
\* the used order and is the id of no citation; a citation is used only through an id
\* of the used order; the result is what the answer without those ids gives; nothing
\* is raised.
C3_HallucinatedIgnored ==
    Answered =>
        /\ \A rid \in NamedRefIds \ Range(ref_ids) :
            /\ rid \notin Range(used_order)
            /\ CitationsOf(rid) = {}
        /\ \A n \in 1..Len(citations) :
            citations[n].used => citations[n].ref_id \in Range(used_order) \cap Range(ref_ids)
        /\ LET stripped == StripUnknownRefs(final_answer.tokens, ref_ids)
               order == BuildUsedOrder(stripped, ref_ids, FallbackTimestamps(docs))
           IN  /\ used_order = order
               /\ citations = BuildCitations(docs, ref_ids, video_tags, order).citations
        /\ ~raised

\* C3 witness: the answer names an unknown bare reference id before a known one
C3_Witness ==
    /\ Answered
    /\ Len(final_answer.tokens) = 2
    /\ final_answer.tokens[1].kind = "ref"
    /\ final_answer.tokens[1].id \notin Range(ref_ids)
    /\ final_answer.tokens[2].kind = "ref"
    /\ final_answer.tokens[2].id \in Range(ref_ids)
    /\ used_order # <<>>

\* the position at which the video of docs[i] is first seen
FirstSeen(i) ==
    CHOOSE j \in 1..i :
        /\ docs[j].video_id = docs[i].video_id
        /\ \A j2 \in 1..i : docs[j2].video_id = docs[i].video_id => j <= j2

\* C4: the reference ids are #1..#n by position, pairwise distinct; the video tags
\* are V1, V2, ... in the order each video_id is first seen, two documents have the
\* same tag exactly when they have the same video_id, and there are as many tags as
\* distinct video_ids.
C4_ReferenceTagging ==
    Answered =>
        LET vids == {docs[i].video_id : i \in 1..Len(docs)}
        IN  /\ Len(ref_ids) = Len(docs)
            /\ \A i \in 1..Len(docs) : ref_ids[i] = Digits(i) /\ NumberOf(ref_ids[i]) = i
            /\ \A i, j \in 1..Len(docs) : i # j => ref_ids[i] # ref_ids[j]
            /\ DOMAIN video_tags = vids
            /\ \A i, j \in 1..Len(docs) :
                (video_tags[docs[i].video_id] = video_tags[docs[j].video_id])
                    <=> (docs[i].video_id = docs[j].video_id)
            /\ Cardinality({video_tags[v] : v \in vids}) = Cardinality(vids)
            /\ {video_tags[v] : v \in vids} = {Digits(n) : n \in 1..Cardinality(vids)}
            /\ \A i \in 1..Len(docs) :
                video_tags[docs[i].video_id] =
                    Digits(Cardinality({docs[j].video_id : j \in 1..FirstSeen(i)}))

\* C4 witness: the video seen first is not the first by id and comes back after another
C4_Witness ==
    /\ Answered
    /\ Len(docs) = 3
    /\ docs[1].video_id = "b"
    /\ docs[2].video_id = "a"
    /\ docs[3].video_id = "b"
    /\ video_tags["b"] = <<1>>
    /\ video_tags["a"] = <<2>>

\* C5: the citation list is the documents of the used order, in that order and marked
\* used, then all other documents, not marked used, by video tag ascending in tag
\* order (V1, V2, ..., V9, V10, ...) and within a tag by start time ascending; a
\* citation is marked used exactly when its reference id is in the used order.
C5_CitationOrdering ==
    Answered =>
        LET u == Len(used_order)
        IN  /\ u <= Len(citations)
            /\ \A n \in 1..u : citations[n].ref_id = used_order[n] /\ citations[n].used
            /\ \A n \in (u + 1)..Len(citations) : ~citations[n].used
            /\ \A m, n \in (u + 1)..Len(citations) :
                m < n =>
                    \/ NumberOf(citations[m].video_tag) < NumberOf(citations[n].video_tag)
                    \/ /\ citations[m].video_tag = citations[n].video_tag
                       /\ citations[m].start <= citations[n].start
            /\ \A n \in 1..Len(citations) :
                citations[n].used <=> citations[n].ref_id \in Range(used_order)

\* C6: when retrieval returns no document, answer_question returns the fixed message
\* with empty citations and source_videos, raises nothing and does not call the
\* generator.
C6_EmptyRetrieval ==
    (qpc = "done" /\ docs = <<>>) =>
        /\ final_answer = NoResultsAnswer
        /\ final_answer.text = "I couldn't find relevant transcript segments for that question."
        /\ citations = <<>>
        /\ source_videos = <<>>
        /\ ~llm_invoked
        /\ ~raised

\* C6 witness: the endpoint's call (k = 8) returned from an empty retrieval
C6_Witness ==
    /\ qpc = "done"
    /\ docs = <<>>
    /\ k = <<EndpointK>>
    /\ retrieval = "similarity_search"
    /\ final_answer.kind = "fixed"

\* the timestamps of an answer made of bare timestamps only, left to right
AnswerTimestamps ==
    [n \in 1..Len(final_answer.tokens) |-> final_answer.tokens[n].times[1]]

\* the positions where a timestamp appears for the first time
FirstOccurrences(ts) == {n \in 1..Len(ts) : \A m \in 1..(n - 1) : ts[m] # ts[n]}

\* the retrieved documents whose formatted start timestamp is t
StartsAt(t) == {i \in 1..Len(docs) : Ts(docs[i].start) = t}

\* C12: when the answer has no reference-id token, the used order is, for the distinct
\* M:SS timestamps of the answer in order of first appearance, the reference id of
\* the first retrieved document whose formatted start timestamp equals it; a
\* timestamp no document starts at adds nothing, no document is matched twice, and
\* when nothing matches the used order is empty and no citation is marked used.
C12_TimestampFallback ==
    (Answered /\ NamedRefIds = {}) =>
        LET ts   == AnswerTimestamps
            hits == {n \in FirstOccurrences(ts) : StartsAt(ts[n]) # {}}
        IN  /\ fallback_taken
            /\ Len(used_order) = Cardinality(hits)
            /\ \A p \in 1..Len(used_order) :
                \E n \in hits :
                    /\ Cardinality({m \in hits : m <= n}) = p
                    /\ \E i \in StartsAt(ts[n]) :
                        /\ \A j \in StartsAt(ts[n]) : i <= j
                        /\ used_order[p] = ref_ids[i]
            /\ \A p, q \in 1..Len(used_order) : p # q => used_order[p] # used_order[q]
            /\ hits = {} =>
                /\ used_order = <<>>
                /\ \A n \in 1..Len(citations) : ~citations[n].used

\* C12 witness: the answer "0:05 ... 1:05" over documents of which the first two both
\* start at 0:05 and the third at 1:05: the first and the third are matched
C12_Witness ==
    /\ Answered
    /\ NamedRefIds = {}
    /\ Len(docs) = 3
    /\ docs[1].start = docs[2].start
    /\ Len(final_answer.tokens) = 2
    /\ AnswerTimestamps = <<Ts(5), Ts(65)>>
    /\ used_order = <<ref_ids[1], ref_ids[3]>>

\* C13: every answered question, the endpoint's with k = 8 included, retrieved its
\* documents through the maximal-marginal-relevance search of build_rag_pipeline
\* (lambda 0.5, candidate pool max(20, 4 * k)), not through plain similarity ranking.
C13_DiversityAwareRetrieval ==
    qpc = "done" =>
        LET search == SearchOf(retrieval, k)
        IN  /\ search.search_type = "mmr"
            /\ search.lambda_mult = "0.5"
            /\ search.fetch_k = Max(20, 4 * search.k)

-----------------------------------------------------------------------------
(* Claims about index_videos (checked under SpecIngest) *)

RECURSIVE EncounteredFrom(_)
\* the snippets fetched so far, each with its video, in the order the loops meet them
EncounteredFrom(j) ==
    IF j > Len(fetched) THEN <<>>
    ELSE (IF fetched[j] = None THEN <<>>
          ELSE [n \in 1..Len(fetched[j][1]) |-> [v |-> videos[j], snip |-> fetched[j][1][n]]])
         \o EncounteredFrom(j + 1)

\* (video_id, integer start second) of a fetched snippet; starts are in tenths
KeyOf(e) == <<e.v.id, e.snip.start \div 10>>

\* the positions in enc of the snippets that are the first with their key
FirstOfKey(enc) ==
    {n \in 1..Len(enc) : \A m \in 1..(n - 1) : KeyOf(enc[m]) # KeyOf(enc[n])}

\* (video_id, start) of a raw doc or a chunk
MetaKey(x) == <<x.metadata.video_id, x.metadata.start>>

\* C7: within one index_videos call, of the fetched snippets with the same (video_id,
\* integer start second) only the first one met gives a raw doc and chunks, also when
\* the video is supplied twice or through a playlist and a video url: no two raw docs
\* and no two chunk sets come from snippets sharing a key.
C7_SnippetDedup ==
    LET enc == EncounteredFrom(1)
        firsts == FirstOfKey(enc)
    IN  /\ \A i, j \in 1..Len(snippet_docs) :
            i # j => MetaKey(snippet_docs[i]) # MetaKey(snippet_docs[j])
        /\ Len(snippet_docs) = Cardinality(firsts)
        /\ \A n \in firsts :
            LET d == RawDoc(enc[n].v, enc[n].snip)
            IN  \E i \in 1..Len(snippet_docs) : snippet_docs[i] = d
        /\ ipc \in {"load", "batches", "refresh", "done"} /\ chunks # <<>> =>
            /\ \A n \in firsts :
                SelectSeq(chunks, LAMBDA c : MetaKey(c) = KeyOf(enc[n])) =
                    LET d == RawDoc(enc[n].v, enc[n].snip)
                        pieces == SplitText(CleanTranscript(enc[n].snip.text))
                    IN  [i \in 1..Len(pieces) |-> [text |-> pieces[i], metadata |-> d.metadata]]
            /\ \A i \in 1..Len(chunks) :
                \E n \in firsts : MetaKey(chunks[i]) = KeyOf(enc[n])

\* C7 witness: a video reached through the playlist and through its own url, both
\* fetches gave snippets, the call went through, and snippets of the second fetch were
\* dropped for a key of the first fetch and for a key of the second
C7_Witness ==
    LET enc == EncounteredFrom(1)
    IN  /\ ipc = "done"
        /\ outcome = "ok"
        /\ Len(videos) = 3
        /\ videos[1].id = videos[3].id
        /\ videos[1].playlist_id # videos[3].playlist_id
        /\ fetched[1] # None
        /\ fetched[3] # None
        /\ \E m, n \in 1..Len(enc) :
            m < n /\ KeyOf(enc[m]) = KeyOf(enc[n]) /\ enc[m].v = videos[1] /\ enc[n].v = videos[3]
        /\ \E m, n \in 1..Len(enc) :
            m < n /\ KeyOf(enc[m]) = KeyOf(enc[n]) /\ enc[m].v = videos[3] /\ enc[n].v = videos[3]
        /\ \E n \in FirstOfKey(enc) : enc[n].v = videos[3]

\* whether the raw doc d and all its pieces are in the persisted index
Indexed(d) ==
    /\ disk # None
    /\ \A i \in 1..Len(SplitText(d.content)) :
        \E c \in 1..Len(disk[1]) :
            disk[1][c] = [text |-> SplitText(d.content)[i], metadata |-> d.metadata]

\* C8: a malformed or unresolvable url and a failed transcript fetch are skipped and
\* do not end the call: every url is looked at and every video is tried, the call
\* fails only when the whole batch gave no snippet or no chunk, and when it succeeds
\* every snippet of every fetched transcript is in the persisted index through the
\* first snippet of its key.
C8_PartialFailureIsolation ==
    /\ ipc \notin {"idle", "collect"} => Len(resolved) = Len(urls)
    /\ \A i \in 1..Len(resolved) :
        /\ ~IsBlank(urls[i]) /\ ~LooksLikePlaylist(urls[i]) /\ ExtractVideoId(urls[i]) # None
            => \E j \in 1..Len(videos) : videos[j].id = ExtractVideoId(urls[i])[1]
        /\ resolved[i] = "playlist"
            => \A item \in Range(PlaylistItems(urls[i].list[1])) :
                   \E j \in 1..Len(videos) : videos[j] = item
    /\ ipc \notin {"idle", "collect", "fetch"} => Len(fetched) = Len(videos)
    /\ outcome = "error" => Len(fetched) = Len(videos) /\ (snippet_docs = <<>> \/ chunks = <<>>)
    /\ outcome = "ok" =>
        LET enc == EncounteredFrom(1)
        IN  \A n \in 1..Len(enc) :
                \E m \in FirstOfKey(enc) :
                    /\ KeyOf(enc[m]) = KeyOf(enc[n])
                    /\ Indexed(RawDoc(enc[m].v, enc[m].snip))

\* C8 witness: a call over a malformed url and a playlist, one fetch failed, the
\* other gave chunks, and the call went through
C8_Witness ==
    /\ ipc = "done"
    /\ outcome = "ok"
    /\ resolved = <<"warning", "playlist">>
    /\ ExtractVideoId(urls[1]) = None
    /\ fetched[1] = None
    /\ fetched[2] # None
    /\ \E c \in 1..Len(disk[1]) : disk[1][c].metadata.video_id = videos[2].id
    /\ Len(chunks) >= 2

\* C9: a call that got no snippet or no chunk from the whole batch fails; a failed call
\* leaves the persisted index as it was (not created, emptied or overwritten, also
\* with overwrite=True) and, through /index_videos, the cached pipeline as it was; no
\* empty index is ever persisted.
C9_EmptyBatchFailure ==
    /\ ipc = "done" /\ (snippet_docs = <<>> \/ chunks = <<>>) => outcome = "error"
    /\ outcome = "ok" => chunks # <<>>
    /\ outcome = "error" \/ chunks = <<>> =>
        /\ disk = disk0.disk
        /\ disk_mtime = disk0.mtime
        /\ pipeline = pipeline0.pipeline
        /\ vs_mtime = pipeline0.vs_mtime
    /\ disk # Some(<<>>)

\* C9 witness: through the endpoint, snippets were fetched but gave no chunk, the
\* existing index had been loaded, a pipeline was cached, and the call failed
C9_Witness ==
    /\ ipc = "done"
    /\ outcome = "error"
    /\ via_endpoint
    /\ snippet_docs # <<>>
    /\ chunks = <<>>
    /\ vector_store # None
    /\ disk0.disk # None
    /\ pipeline0.pipeline # None

\* C10: a successful call with overwrite=False over an existing index leaves every
\* chunk persisted before in the index and adds each new chunk once, whatever the
\* number of batches; with overwrite=True (or no index before) the persisted index
\* holds the new chunks only.
C10_MergeNotReplace ==
    outcome = "ok" =>
        /\ chunks # <<>>
        /\ disk = Some((IF ~overwrite /\ disk0.disk # None THEN disk0.disk[1] ELSE <<>>)
                       \o chunks)

\* C10 witness: a merge into an existing index in three or more batches
C10_Witness ==
    /\ ipc = "done"
    /\ outcome = "ok"
    /\ ~overwrite
    /\ disk0.disk # None
    /\ batch_size = 1
    /\ Len(chunks) >= 3
    /\ Len(disk[1]) = Len(disk0.disk[1]) + Len(chunks)

-----------------------------------------------------------------------------
(* Claims about the concurrent endpoints (checked under SpecServer) *)

\* thread t is reading the persisted index: FAISS.load_local of index_videos or of
\* _load_vector_store is running
Reloading(t) == tpc[t] \in {"idx_loading", "ask_loading"}

\* thread t is building a pipeline or replacing the cached one
Rebuilding(t) == tpc[t] \in {"idx_build", "idx_assign", "ask_build"}

\* C11: in every interleaving of /ask_question, /index_videos and /reset requests, at
\* most one thread at a time is reloading the persisted index or rebuilding and
\* replacing the cached pipeline, and a thread doing so holds the pipeline lock.
C11_SerializedCacheRebuild ==
    /\ Cardinality({t \in Threads : Reloading(t) \/ Rebuilding(t)}) <= 1
    /\ \A t \in Threads : (Reloading(t) \/ Rebuilding(t)) => lock = t

\* how many times the chunk c is in the chunk sequence cs
Count(cs, c) == Cardinality({i \in 1..Len(cs) : cs[i] = c})

\* the /index_videos requests that completed successfully
Completed == {t \in Threads : treq[t] = "index" /\ tpc[t] = "ok"}

RECURSIVE CountCompleted(_, _)
\* how many times the chunk c is among the chunks of the completed requests 1..t
CountCompleted(t, c) ==
    IF t = 0 THEN 0
    ELSE CountCompleted(t - 1, c) + (IF t \in Completed THEN Count(tchunks[t], c) ELSE 0)

\* the chunks persisted before the requests
PersistedBefore == IF disk0.disk = None THEN <<>> ELSE disk0.disk[1]

\* C14: once two or more /index_videos requests, interleaved in any way and with no
\* /reset among the requests, have all completed successfully, the persisted index
\* holds the chunks of every one of them and all chunks persisted before them.
C14_NoLostChunks ==
    (/\ Cardinality(Completed) >= 2
     /\ \A t \in Threads : treq[t] = "reset" => tpc[t] = "idle"
     /\ \A t \in Threads : treq[t] = "index" => tpc[t] = "ok") =>
        /\ disk # None
        /\ \A c \in Range(PersistedBefore) \cup UNION {Range(tchunks[t]) : t \in Completed} :
            Count(disk[1], c) >= Count(PersistedBefore, c) + CountCompleted(MaxThreads, c)

=============================================================================
